---------------------------- MODULE Spec2Model ----------------------------
(***************************************************************************)
(* A model of the cTime library (OlafSimon/cTime): the overflow-safe       *)
(* epoch <-> calendar converter (y2038Calendar / y2038Set), the native     *)
(* converter built on the platform calendar routines (cTime::calendar /    *)
(* cTime::set), and the duration arithmetic and duration string codec.     *)
(*                                                                         *)
(* Representation of seconds counts.  The code computes with int64_t and   *)
(* uint64_t seconds (up to the 12 622 780 800 seconds of a 400 year        *)
(* block); the model checker's integers are 32 bit wide.  A seconds count  *)
(* v is therefore held as the pair <<d, s>> with v = d * 86400 + s and     *)
(* 0 <= s < 86400.  The operators Plus, Minus, Times, TruncDiv and         *)
(* TruncRem are integer arithmetic on that representation; nothing else    *)
(* about the code's arithmetic is changed.                                 *)
(***************************************************************************)
EXTENDS Integers, Sequences, FiniteSets, TLC

VARIABLES
    localZone,   \* platform oracle: the host's geographic zone (hours)
    isdst,       \* platform oracle: the host's DST state (tm_isdst: 1, 0, -1)
    pc,          \* the operation that produced the current state
    arg,         \* the inputs of the run
    ret          \* the results computed so far

vars == <<localZone, isdst, pc, arg, ret>>

\* a pointer argument is the empty tuple (nullptr) or <<v>>, pointing at v
NULL == << >>

(***************************************************************************)
(* Seconds counts as <<days, seconds of day>>.                             *)
(***************************************************************************)
SecondsOfDay == 86400

Secs(d, s) == <<d + (s \div SecondsOfDay), s % SecondsOfDay>>

Zero == <<0, 0>>

Plus(a, b) == Secs(a[1] + b[1], a[2] + b[2])

Neg(a) == Secs(-a[1], -a[2])

Minus(a, b) == Plus(a, Neg(b))

Less(a, b) == a[1] < b[1] \/ (a[1] = b[1] /\ a[2] < b[2])

Times(n, a) == Secs(n * a[1], n * a[2])

\* floor(a / m) for a >= 0 and a modulo m > 0 that is a whole number of days
\* or less than a day (the only moduli the code uses)
QuotNat(a, m) ==
    IF m[2] = 0 THEN a[1] \div m[1]
    ELSE (a[1] * SecondsOfDay + a[2]) \div m[2]

\* C's / and % on signed operands: the quotient is truncated toward zero
TruncDiv(a, m) == IF Less(a, Zero) THEN -QuotNat(Neg(a), m) ELSE QuotNat(a, m)

TruncRem(a, m) == Minus(a, Times(TruncDiv(a, m), m))

\* C's / on plain int operands, b > 0
CDiv(a, b) == IF a < 0 THEN -((-a) \div b) ELSE a \div b

(***************************************************************************)
(* Fixed width integers.                                                   *)
(***************************************************************************)
TwoTo32 == <<49710, 23296>>      \* 2^32  = 49710 * 86400 + 23296
Int32Min == <<-24856, 74752>>    \* -2^31
Int32Max == <<24855, 11647>>     \* 2^31 - 1

\* conversion to int32_t: the value modulo 2^32 in -2^31 .. 2^31 - 1
RECURSIVE ToInt32(_)
ToInt32(a) ==
    IF Less(a, Int32Min) THEN ToInt32(Plus(a, TwoTo32))
    ELSE IF Less(Int32Max, a) THEN ToInt32(Minus(a, TwoTo32))
    ELSE a

InInt32(a) == ~Less(a, Int32Min) /\ ~Less(Int32Max, a)

\* conversion to uint8_t
ToUInt8(x) == x % 256

\* A signed int32_t addition or subtraction whose exact result is x.  When x
\* does not fit, the behaviour is undefined: a build either wraps the 32 bit
\* register ("wrap") or, having widened the arithmetic to the 64 bit value it
\* is converted to next, keeps the exact result ("wide"), or merges the
\* constant with the constant added next and wraps the merged sum ("fold",
\* g++ 12 -O1 to -O3; where there is no constant to merge it wraps).
UBOutcomes == {"wrap", "wide", "fold"}

SignedInt32(x, ovf) == IF ovf = "wide" THEN x ELSE ToInt32(x)

(***************************************************************************)
(* Calendar constants of y2038Calendar.cpp                                 *)
(***************************************************************************)
BibCpp_DAYSPERNORMALYEAR == 365
BibCpp_DAYSPERWEEK == 7
BibCpp_DAYSPER4YEARS == 1461
BibCpp_DAYSPER100YEARS == 36524
BibCpp_DAYSPER400YEARS == 146097

BibCpp_TIME_T_2030 == <<21915, 0>>         \* 1893456000
BibCpp_TIME_T_2030_2001 == <<10592, 0>>    \* 1893456000 - 978307200

BibCpp_SECONDSPERMINUTE == <<0, 60>>
BibCpp_SECONDSPERHOUR == <<0, 3600>>
BibCpp_SECONDSPERDAY == <<1, 0>>
BibCpp_SECONDSPERWEEK == <<BibCpp_DAYSPERWEEK, 0>>
BibCpp_SECONDSPERNORMALYEAR == <<BibCpp_DAYSPERNORMALYEAR, 0>>
BibCpp_SECONDSPER4YEARS == <<BibCpp_DAYSPER4YEARS, 0>>
BibCpp_SECONDSPER100YEARS == <<BibCpp_DAYSPER100YEARS, 0>>
BibCpp_SECONDSPER400YEARS == <<BibCpp_DAYSPER400YEARS, 0>>

\* days before the first of each month, index 0 .. 11 (as a 1-based tuple)
DaysTillMonth ==
    << <<0, 31, 59, 90, 120, 151, 181, 212, 243, 273, 304, 334>>,
       <<0, 31, 60, 91, 121, 152, 182, 213, 244, 274, 305, 335>> >>

BibCpp_SECONDSTILLMONTH(il, m) == <<DaysTillMonth[il + 1][m + 1], 0>>

\* a variant of the leap year predicate without the 400 year rule
BibCpp_isLeapYear_no400(y) == IF (y % 4) = 0 /\ (y % 100) # 0 THEN 1 ELSE 0

BibCpp_isLeapYear(y) ==
    IF ((y % 4) = 0 /\ (y % 100) # 0) \/ (y % 400) = 0 THEN 1 ELSE 0

stCalendar_Ini ==
    [year |-> 0, month |-> 0, day |-> 0, hour |-> 0, minute |-> 0, second |-> 0,
     dst |-> 0, timeZone |-> [hours |-> 0, minutes |-> 0],
     dayInYear |-> 0, dayInWeek |-> 0, calendarWeek |-> 0]

(***************************************************************************)
(* unsignedModulo: the code's floor division.                              *)
(***************************************************************************)
\* a variant that forgets 'if (rem < 0) rem += modulo'
unsignedModuloNegative_noLift(div, rem, modulo) ==
    IF div < 0
    THEN [divisor |-> div - 1, remainder |-> rem]
    ELSE [divisor |-> div, remainder |-> rem]

unsignedModuloNegative(div, rem, modulo) ==
    \* if (div < 0) { div -= 1; if (rem < 0) rem += modulo; }
    IF div < 0
    THEN [divisor |-> div - 1,
          remainder |-> IF Less(rem, Zero) THEN Plus(rem, modulo) ELSE rem]
    ELSE [divisor |-> div, remainder |-> rem]

unsignedModuloZero(r, modulo) ==
    \* if (div == 0 && rem < 0) { rem += modulo; div -= 1; }
    IF r.divisor = 0 /\ Less(r.remainder, Zero)
    THEN [divisor |-> r.divisor - 1, remainder |-> Plus(r.remainder, modulo)]
    ELSE r

unsignedModulo(value, modulo) ==
    IF modulo = Zero
    THEN [divisor |-> 1, remainder |-> Zero]
    ELSE unsignedModuloZero(
             unsignedModuloNegative(TruncDiv(value, modulo), TruncRem(value, modulo), modulo),
             modulo)

(***************************************************************************)
(* y2038Calendar.  The function is a straight line of steps; each step is  *)
(* an operator that is handed the results of the steps before it.          *)
(***************************************************************************)
\* the zone shift: the hours added to UTC for the requested zone
y2038RelZone(timeZone, dst) ==
    IF timeZone = NULL
    THEN IF isdst > 0 THEN localZone + 1 ELSE localZone
    ELSE IF dst > 0 THEN timeZone[1] - 1 ELSE timeZone[1]

\* the seconds since the begin of 2001 on the wall clock of the requested zone
y2038Time64(unixSeconds, timeZone, dst, ovf) ==
    Plus(IF ovf = "fold"
         THEN ToInt32(Plus(Minus(ToInt32(unixSeconds), BibCpp_TIME_T_2030),
                           BibCpp_TIME_T_2030_2001))
         ELSE Plus(SignedInt32(Minus(ToInt32(unixSeconds), BibCpp_TIME_T_2030), ovf),
                   BibCpp_TIME_T_2030_2001),
         Times(y2038RelZone(timeZone, dst), BibCpp_SECONDSPERHOUR))

\* calendar.dst and calendar.timeZone
y2038Zone(timeZone, dst) ==
    [stCalendar_Ini EXCEPT
        !.dst = dst,
        !.timeZone.hours = IF timeZone = NULL THEN localZone ELSE timeZone[1]]

\* the block indices k, j, i, h and the seconds into the year, block1
y2038Block1(k, j, i, b1) ==
    [k |-> k, j |-> j, i |-> i, h |-> b1.divisor, block1 |-> b1.remainder]

y2038Block4(k, j, b4) ==
    y2038Block1(k, j, b4.divisor, unsignedModulo(b4.remainder, BibCpp_SECONDSPERNORMALYEAR))

y2038Block100(k, b100) ==
    y2038Block4(k, b100.divisor, unsignedModulo(b100.remainder, BibCpp_SECONDSPER4YEARS))

y2038Block400(b400) ==
    y2038Block100(b400.divisor, unsignedModulo(b400.remainder, BibCpp_SECONDSPER100YEARS))

y2038Blocks(time64) == y2038Block400(unsignedModulo(time64, BibCpp_SECONDSPER400YEARS))

daysBeginSince2001(b) ==
    b.k * BibCpp_DAYSPER400YEARS + b.j * BibCpp_DAYSPER100YEARS
    + b.i * BibCpp_DAYSPER4YEARS + b.h * BibCpp_DAYSPERNORMALYEAR

y2038Year(b) == (b.k + 5) * 400 + b.j * 100 + b.i * 4 + (b.h + 1)

\* for (m=11; m>=0; m--) if (block1 >= BibCpp_SECONDSTILLMONTH[il][m]) break;
RECURSIVE MonthScan(_, _, _)
MonthScan(il, block1, m) ==
    IF m < 0 THEN m
    ELSE IF ~Less(block1, BibCpp_SECONDSTILLMONTH(il, m)) THEN m
    ELSE MonthScan(il, block1, m - 1)

\* the month index m and the seconds into the month, blockM
y2038MonthOf(il, block1, m) ==
    [m |-> m, blockM |-> Minus(block1, BibCpp_SECONDSTILLMONTH(il, m))]

y2038MonthIn(il, block1) == y2038MonthOf(il, block1, MonthScan(il, block1, 11))

y2038Month(b) == y2038MonthIn(BibCpp_isLeapYear(y2038Year(b)), b.block1)

\* day, hour, minute and second out of the seconds into the month
y2038ClockMinute(d, hour, bMin) ==
    [d |-> d, hour |-> hour, minute |-> bMin.divisor, second |-> bMin.remainder[2]]

y2038ClockHour(d, bHr) ==
    y2038ClockMinute(d, bHr.divisor, unsignedModulo(bHr.remainder, BibCpp_SECONDSPERMINUTE))

y2038ClockDay(bD) ==
    y2038ClockHour(bD.divisor, unsignedModulo(bD.remainder, BibCpp_SECONDSPERHOUR))

y2038Clock(blockM) == y2038ClockDay(unsignedModulo(blockM, BibCpp_SECONDSPERDAY))

\* a variant that forgets dayInYear++
y2038DayInYear_fromZero(b) == unsignedModulo(b.block1, BibCpp_SECONDSPERDAY).divisor

y2038DayInYear(b) == unsignedModulo(b.block1, BibCpp_SECONDSPERDAY).divisor + 1

\* dWeeks2001 - yWeeks2001 + 1
y2038CalendarWeek(bW, b) == bW.divisor - CDiv(daysBeginSince2001(b), 7) + 1

\* a variant that forgets calendar.dayInWeek = dw + 1 counts from 1
y2038DayInWeek_fromZero(bW) == unsignedModulo(bW.remainder, BibCpp_SECONDSPERDAY).divisor

y2038DayInWeek(bW) == unsignedModulo(bW.remainder, BibCpp_SECONDSPERDAY).divisor + 1

y2038Fields(calendar, b, mo, clock, bW) ==
    [calendar EXCEPT
        !.year = y2038Year(b),
        !.month = ToUInt8(mo.m + 1),
        !.day = ToUInt8(clock.d + 1),
        !.hour = ToUInt8(clock.hour),
        !.minute = ToUInt8(clock.minute),
        !.second = ToUInt8(clock.second),
        !.dayInYear = y2038DayInYear(b),
        !.calendarWeek = ToUInt8(y2038CalendarWeek(bW, b)),
        !.dayInWeek = ToUInt8(y2038DayInWeek(bW))]

y2038InMonth(calendar, b, mo, bW) == y2038Fields(calendar, b, mo, y2038Clock(mo.blockM), bW)

y2038InYear(calendar, b, bW) == y2038InMonth(calendar, b, y2038Month(b), bW)

y2038At(calendar, time64) ==
    y2038InYear(calendar, y2038Blocks(time64), unsignedModulo(time64, BibCpp_SECONDSPERWEEK))

y2038Calendar(unixSeconds, timeZone, dst, ovf) ==
    y2038At(y2038Zone(timeZone, dst), y2038Time64(unixSeconds, timeZone, dst, ovf))

(***************************************************************************)
(* y2038Set                                                                *)
(***************************************************************************)
\* the zone deviation subtracted from the wall clock
y2038SetRelZone(calendar) ==
    IF calendar.dst > 0 THEN calendar.timeZone.hours + 1 ELSE calendar.timeZone.hours

\* the index BibCpp_SECONDSTILLMONTH[il] is read at
y2038SetMonthIndex(calendar) == calendar.month - 1

\* what a read of the table outside 0 .. 11 can deliver.  The read is
\* undefined; the two rows lie one after the other, so index -1 of the leap
\* row is December of the normal row, and any other place holds whatever the
\* build put next to the table: no seconds, a day, a 400 year block.
OutOfBoundsReads(il, m) ==
    (IF il = 1 /\ m = -1 THEN {BibCpp_SECONDSTILLMONTH(0, 11)} ELSE {})
    \cup {Zero, BibCpp_SECONDSPERDAY, BibCpp_SECONDSPER400YEARS}

\* BibCpp_SECONDSTILLMONTH[il][calendar.month-1]
y2038SetTillMonth(il, m) ==
    IF m \in 0..11 THEN {BibCpp_SECONDSTILLMONTH(il, m)} ELSE OutOfBoundsReads(il, m)

MonthTableReads(calendar) ==
    y2038SetTillMonth(BibCpp_isLeapYear(calendar.year), y2038SetMonthIndex(calendar))

\* y2038Set with the value read from the month table handed in
y2038SetFrom(calendar, tillMonth, ovf) ==
    LET y == Secs(0, calendar.year - 2001)
        r400 == unsignedModulo(y, <<0, 400>>)
        r100 == unsignedModulo(r400.remainder, <<0, 100>>)
        r4   == unsignedModulo(r100.remainder, <<0, 4>>)
        k == r400.divisor
        j == r100.divisor
        i == r4.divisor
        h == r4.remainder[2]
        relZone == y2038SetRelZone(calendar)
        time64 ==
            Minus(
              Minus(
                Plus(Plus(Plus(Plus(Plus(Plus(Plus(Plus(
                    Times(k, BibCpp_SECONDSPER400YEARS),
                    Times(j, BibCpp_SECONDSPER100YEARS)),
                    Times(i, BibCpp_SECONDSPER4YEARS)),
                    Times(h, BibCpp_SECONDSPERNORMALYEAR)),
                    tillMonth),
                    Times(calendar.day - 1, BibCpp_SECONDSPERDAY)),
                    Times(calendar.hour, BibCpp_SECONDSPERHOUR)),
                    Times(calendar.minute, BibCpp_SECONDSPERMINUTE)),
                    Secs(0, calendar.second)),
                Times(relZone, BibCpp_SECONDSPERHOUR)),
              BibCpp_TIME_T_2030_2001)
    IN  SignedInt32(Plus(ToInt32(time64), BibCpp_TIME_T_2030), ovf)

\* y2038Set of a calendar whose month is in 1 .. 12
y2038Set(calendar, ovf) ==
    y2038SetFrom(calendar,
                 BibCpp_SECONDSTILLMONTH(BibCpp_isLeapYear(calendar.year),
                                         y2038SetMonthIndex(calendar)),
                 ovf)

(***************************************************************************)
(* The platform's calendar routines (time.h), which the native converter   *)
(* calls.  The host is in the geographic zone localZone and its DST state  *)
(* isdst is the same at every instant of a run: 1 (daylight saving time,   *)
(* wall clock = UTC + localZone + 1), 0 (standard time) or -1 (the         *)
(* platform cannot tell; wall clock = UTC + localZone).                    *)
(***************************************************************************)
\* days from 1970-01-01 to the civil date y-m-d (proleptic Gregorian)
DaysFromCivil(y, m, d) ==
    LET yy  == IF m <= 2 THEN y - 1 ELSE y
        era == yy \div 400
        yoe == yy - era * 400
        mp  == IF m > 2 THEN m - 3 ELSE m + 9
        doy == (153 * mp + 2) \div 5 + d - 1
        doe == yoe * 365 + yoe \div 4 - yoe \div 100 + doy
    IN  era * 146097 + doe - 719468

\* the civil date of the day z days after 1970-01-01
CivilOfMonth(y, doy, mp) ==
    [year |-> y + (IF mp >= 10 THEN 1 ELSE 0),
     month |-> IF mp < 10 THEN mp + 3 ELSE mp - 9,
     day |-> doy - (153 * mp + 2) \div 5 + 1]

CivilOfDay(y, doy) == CivilOfMonth(y, doy, (5 * doy + 2) \div 153)

CivilOfYear(era, doe, yoe) ==
    CivilOfDay(era * 400 + yoe, doe - (365 * yoe + yoe \div 4 - yoe \div 100))

CivilOfEra(era, doe) ==
    CivilOfYear(era, doe, (doe - doe \div 1460 + doe \div 36524 - doe \div 146096) \div 365)

CivilFromDays(z) == CivilOfEra((z + 719468) \div 146097, (z + 719468) % 146097)

tm_Ini ==
    [tm_sec |-> 0, tm_min |-> 0, tm_hour |-> 0, tm_mday |-> 0, tm_mon |-> 0,
     tm_year |-> 0, tm_wday |-> 0, tm_yday |-> 0, tm_isdst |-> 0]

gmtimeFields(t, c) ==
    [tm_sec |-> t[2] % 60, tm_min |-> (t[2] \div 60) % 60, tm_hour |-> t[2] \div 3600,
     tm_mday |-> c.day, tm_mon |-> c.month - 1, tm_year |-> c.year - 1900,
     tm_wday |-> (t[1] + 4) % 7,
     tm_yday |-> t[1] - DaysFromCivil(c.year, 1, 1),
     tm_isdst |-> 0]

gmtime(t) == gmtimeFields(t, CivilFromDays(t[1]))

\* the seconds count of broken-down fields read as UTC; fields out of their
\* range carry into the next larger unit
timegm(tm) ==
    Secs(DaysFromCivil(tm.tm_year + 1900 + (tm.tm_mon \div 12), (tm.tm_mon % 12) + 1, tm.tm_mday),
         tm.tm_hour * 3600 + tm.tm_min * 60 + tm.tm_sec)

\* hours the host's wall clock is ahead of UTC
HostDeviation == IF isdst > 0 THEN localZone + 1 ELSE localZone

localtime_s(t) ==
    [gmtime(Plus(t, Times(HostDeviation, <<0, 3600>>))) EXCEPT !.tm_isdst = isdst]

\* mktime reads the fields as local time, honouring a tm_isdst of 0 or 1 and
\* deciding itself when it is negative; it returns the seconds count and
\* rewrites the fields as the normalised local time of that instant
mktimeDst(tm) ==
    IF tm.tm_isdst > 0 THEN 1
    ELSE IF tm.tm_isdst = 0 THEN 0
    ELSE IF isdst > 0 THEN 1 ELSE 0

mktimeAt(t) == [time |-> t, tm |-> localtime_s(t)]

mktime(tm) == mktimeAt(Minus(timegm(tm), Times(localZone + mktimeDst(tm), <<0, 3600>>)))

\* LibOb_localTimeZone: the host's geographic zone
localTimeZone == [hours |-> localZone, minutes |-> 0]

(***************************************************************************)
(* cTime: the native converter (cTimeStd.cpp)                              *)
(***************************************************************************)
INT8_INVALID == -128

LibCpp_SECONDSPERHOUR == <<0, 3600>>
LibCpp_SECONDSPERMINUTE == <<0, 60>>

cTime_UTC == <<0>>
cTime_asUTC == <<INT8_INVALID>>

\* cTime::set(time_t) and cTime::time(): the instance holds the value
cTime_set_time(unixTime) == unixTime

\* the hours cTime::set(stCalendar) adds to what mktime returned
setZoneHours(calendar, tmCalendar) ==
    LET dst == IF tmCalendar.tm_isdst # 0 THEN 1 ELSE 0
    IN  localTimeZone.hours + dst + calendar.timeZone.hours

setTm(calendar) ==
    [tm_Ini EXCEPT !.tm_year = calendar.year - 1900,
                   !.tm_mon = calendar.month - 1,
                   !.tm_mday = calendar.day,
                   !.tm_hour = calendar.hour,
                   !.tm_min = calendar.minute,
                   !.tm_sec = calendar.second,
                   !.tm_isdst = calendar.dst]

\* timeValue += (localZone.hours + dst + calendar.timeZone.hours) * 3600 + minutes * 60
setTimeValue(calendar, mk) ==
    Plus(mk.time,
         Plus(Times(setZoneHours(calendar, mk.tm), LibCpp_SECONDSPERHOUR),
              Times(calendar.timeZone.minutes, LibCpp_SECONDSPERMINUTE)))

cTime_set_calendar(calendar) == cTime_set_time(setTimeValue(calendar, mktime(setTm(calendar))))

\* variants of the operators below, each with one plausible slip
calendarRelDestZone_noFold(pRequestedTimeZone, zone, lt) ==
    IF pRequestedTimeZone[1] = INT8_INVALID THEN zone ELSE pRequestedTimeZone[1]

calendarShiftHours_reversed(relDestZone, relZone) == relZone - relDestZone

calendarRequestedDst_kept(tm_isdst) == tm_isdst

calendarRelZone_noDst(zone, lt) == zone

calendarFields_standard(lt, hours) ==
    [stCalendar_Ini EXCEPT
        !.timeZone.hours = hours,
        !.second = ToUInt8(lt.tm_sec),
        !.minute = ToUInt8(lt.tm_min),
        !.hour = ToUInt8(lt.tm_hour),
        !.day = ToUInt8(lt.tm_mday),
        !.month = ToUInt8(lt.tm_mon + 1),
        !.year = lt.tm_year + 1900,
        !.dst = IF lt.tm_isdst < 0 THEN 0 ELSE lt.tm_isdst,
        !.dayInWeek = IF ToUInt8(lt.tm_wday) = 0 THEN 7 ELSE ToUInt8(lt.tm_wday),
        !.dayInYear = lt.tm_yday + 1]

\* int8_t relZone = zone; if (lt.tm_isdst>0) relZone += 1;
calendarRelZone(zone, lt) == IF lt.tm_isdst > 0 THEN zone + 1 ELSE zone

\* the relative zone the requested view is shown in
calendarRelDestZone(pRequestedTimeZone, zone, lt) ==
    IF pRequestedTimeZone[1] = INT8_INVALID
    THEN IF lt.tm_isdst > 0 THEN zone + 1 ELSE zone
    ELSE pRequestedTimeZone[1]

\* lt.tm_hour += relDestZone - relZone;
calendarShiftHours(relDestZone, relZone) == relDestZone - relZone

\* lt.tm_isdst = -1;  the DST flag of a view in a requested zone
calendarRequestedDst(tm_isdst) == -1

\* calendar.second = lt.tm_sec; ... calendar.dayInYear = lt.tm_yday + 1;
calendarFields(lt, hours) ==
    [stCalendar_Ini EXCEPT
        !.timeZone.hours = hours,
        !.second = ToUInt8(lt.tm_sec),
        !.minute = ToUInt8(lt.tm_min),
        !.hour = ToUInt8(lt.tm_hour),
        !.day = ToUInt8(lt.tm_mday),
        !.month = ToUInt8(lt.tm_mon + 1),
        !.year = lt.tm_year + 1900,
        !.dst = lt.tm_isdst,
        !.dayInWeek = IF ToUInt8(lt.tm_wday) = 0 THEN 7 ELSE ToUInt8(lt.tm_wday),
        !.dayInYear = lt.tm_yday + 1]

\* the branch taken when pRequestedTimeZone is not null
calendarRequested(lt, zone, relDestZone) ==
    calendarFields(
        [mktime([lt EXCEPT !.tm_hour =
                    @ + calendarShiftHours(relDestZone, calendarRelZone(zone, lt))]).tm
            EXCEPT !.tm_isdst = calendarRequestedDst(@)],
        relDestZone)

calendarView(lt, zone, pRequestedTimeZone) ==
    IF pRequestedTimeZone # NULL
    THEN calendarRequested(lt, zone, calendarRelDestZone(pRequestedTimeZone, zone, lt))
    ELSE calendarFields(lt, zone)

cTime_calendar(time, pRequestedTimeZone) ==
    calendarView(localtime_s(time), localTimeZone.hours, pRequestedTimeZone)

(***************************************************************************)
(* cTime: durations (cTimeStd.cpp)                                         *)
(***************************************************************************)
stDuration_Ini == [days |-> 0, hours |-> 0, minutes |-> 0, seconds |-> 0, sign |-> 1]

\* time_t value = days * 86400 + hours * 3600 + minutes * 60 + seconds
durationValue(duration) ==
    Plus(Plus(Plus(Times(duration.days, <<1, 0>>),
                   Times(duration.hours, <<0, 3600>>)),
              Times(duration.minutes, <<0, 60>>)),
         Secs(0, duration.seconds))

\* the conversion of the uint64_t sum to time_t, on the targets with a 32 bit
\* time_t the overflow-safe converter is written for
ToTimeT(x) == ToInt32(x)

\* a variant of cTime::set(stDuration) that forgets the sign
cTime_set_duration_unsigned(duration) == cTime_set_time(ToTimeT(durationValue(duration)))

\* time_t value = days * 86400 + ...;  if (duration.sign < 0) value = -value;
\* (-value is stored in a time_t again)
cTime_set_duration(duration) ==
    LET value == ToTimeT(durationValue(duration))
    IN  cTime_set_time(IF duration.sign < 0 THEN ToTimeT(Neg(value)) ELSE value)

cTime_set_dhms(days, hours, minutes, seconds, sign) ==
    cTime_set_duration([stDuration_Ini EXCEPT !.days = days, !.hours = hours,
                                              !.minutes = minutes, !.seconds = seconds,
                                              !.sign = sign])

\* a variant of cTime::duration that forgets value = -value
cTime_duration_noAbs(time) ==
    LET value1 == TruncRem(time, <<1, 0>>)
        value2 == TruncRem(value1, <<0, 3600>>)
    IN  [days |-> TruncDiv(time, <<1, 0>>),
         hours |-> TruncDiv(value1, <<0, 3600>>),
         minutes |-> TruncDiv(value2, <<0, 60>>),
         seconds |-> TruncRem(value2, <<0, 60>>)[2],
         sign |-> IF Less(time, Zero) THEN -1 ELSE 1]

cTime_duration(time) ==
    LET negative == Less(time, Zero)
        value0 == IF negative THEN Neg(time) ELSE time
        value1 == TruncRem(value0, <<1, 0>>)
        value2 == TruncRem(value1, <<0, 3600>>)
    IN  [days |-> TruncDiv(value0, <<1, 0>>),
         hours |-> TruncDiv(value1, <<0, 3600>>),
         minutes |-> TruncDiv(value2, <<0, 60>>),
         seconds |-> TruncRem(value2, <<0, 60>>)[2],
         sign |-> IF negative THEN -1 ELSE 1]

(***************************************************************************)
(* The duration string codec.  A string is a sequence of characters.       *)
(***************************************************************************)
DigitChars == <<"0", "1", "2", "3", "4", "5", "6", "7", "8", "9">>

IsDigit(c) == \E i \in 1..10 : DigitChars[i] = c

DigitValue(c) == (CHOOSE i \in 1..10 : DigitChars[i] = c) - 1

\* the decimal digits of n >= 0
RECURSIVE DecDigits(_)
DecDigits(n) ==
    IF n < 10 THEN <<DigitChars[n + 1]>>
    ELSE Append(DecDigits(n \div 10), DigitChars[(n % 10) + 1])

\* printf's %d (width 0) and %0<width>d: a minus sign for a negative number,
\* then zeros up to the width, then the digits
FormatD(n, width) ==
    LET digits == DecDigits(IF n < 0 THEN -n ELSE n)
        sgn == IF n < 0 THEN <<"-">> ELSE << >>
        pad == [i \in 1..(width - Len(digits) - Len(sgn)) |-> "0"]
    IN  sgn \o pad \o digits

\* the days printed by toString(stDuration): int days = (int)duration.days;
\* if (duration.sign < 0) days = -days;
toStringDays(duration) ==
    LET days32 == ToInt32(Secs(0, duration.days))
        days == days32[1] * SecondsOfDay + days32[2]
    IN  IF duration.sign < 0 THEN -days ELSE days

cTime_toString_duration(duration) ==
    <<"D">> \o FormatD(toStringDays(duration), 0)
    \o <<"#">> \o FormatD(duration.hours, 2)
    \o <<":">> \o FormatD(duration.minutes, 2)
    \o <<":">> \o FormatD(duration.seconds, 2)

RECURSIVE SkipSpace(_, _)
SkipSpace(s, p) == IF p <= Len(s) /\ s[p] = " " THEN SkipSpace(s, p + 1) ELSE p

RECURSIVE ScanDigits(_, _, _)
ScanDigits(s, p, acc) ==
    IF p <= Len(s) /\ IsDigit(s[p])
    THEN ScanDigits(s, p + 1, acc * 10 + DigitValue(s[p]))
    ELSE [value |-> acc, next |-> p]

\* sscanf's %d at position p: white space is skipped, then an optional sign
\* and at least one digit are read; ok is FALSE when no number is there
ScanInt(s, p) ==
    LET q == SkipSpace(s, p)
        signed == q <= Len(s) /\ s[q] \in {"-", "+"}
        r == IF signed THEN q + 1 ELSE q
        d == ScanDigits(s, r, 0)
    IN  [ok |-> r <= Len(s) /\ IsDigit(s[r]),
         value |-> IF signed /\ s[q] = "-" THEN -d.value ELSE d.value,
         next |-> d.next]

ScanLit(s, p, c) == p <= Len(s) /\ s[p] = c

\* sscanf(s, "D%d#%d:%d:%d", ...): conversion stops at the first mismatch and
\* the variables not reached keep their initial 0
sscanf_duration(s) ==
    LET a == ScanInt(s, 2)
        okA == ScanLit(s, 1, "D") /\ a.ok
        b == ScanInt(s, a.next + 1)
        okB == okA /\ ScanLit(s, a.next, "#") /\ b.ok
        c == ScanInt(s, b.next + 1)
        okC == okB /\ ScanLit(s, b.next, ":") /\ c.ok
        d == ScanInt(s, c.next + 1)
        okD == okC /\ ScanLit(s, c.next, ":") /\ d.ok
    IN  [days |-> IF okA THEN a.value ELSE 0,
         hours |-> IF okB THEN b.value ELSE 0,
         minutes |-> IF okC THEN c.value ELSE 0,
         seconds |-> IF okD THEN d.value ELSE 0]

cTime_fromDurationString(durationString) ==
    IF ~ScanLit(durationString, 1, "D") THEN stDuration_Ini
    ELSE LET scanned == sscanf_duration(durationString)
         IN  [days |-> IF scanned.days < 0 THEN -scanned.days ELSE scanned.days,
              hours |-> scanned.hours,
              minutes |-> scanned.minutes,
              seconds |-> scanned.seconds,
              sign |-> IF scanned.days < 0 THEN -1 ELSE 1]

(***************************************************************************)
(* The calendar string codec of src/cTimeStd.cpp: toString(stCalendar) and *)
(* fromString.  The calendar's timeZone is the whole-hour offset, held in  *)
(* timeZone.hours.                                                         *)
(***************************************************************************)
\* const char dstString[3][4] = {"UTC", "STD", "DST"}
dstString == << <<"U", "T", "C">>, <<"S", "T", "D">>, <<"D", "S", "T">> >>

\* a variant of the index computation that forgets the + 1
toStringDstIndex_unshifted(dst) == IF dst < 0 \/ dst > 2 THEN 0 ELSE dst

\* int index = calendar.dst + 1; if (index<0 || index>2) index = 0;
toStringDstIndex(dst) == IF dst + 1 < 0 \/ dst + 1 > 2 THEN 0 ELSE dst + 1

\* printf's %+0<width>d: the sign, always, then zeros up to the width, then
\* the digits
FormatPlusD(n, width) ==
    LET digits == DecDigits(IF n < 0 THEN -n ELSE n)
        pad == [i \in 1..(width - Len(digits) - 1) |-> "0"]
    IN  <<IF n < 0 THEN "-" ELSE "+">> \o pad \o digits

\* sprintf_s(buffer, 32, "%04d-%02d-%02d#%02d:%02d:%02d#%s#%+03d:00", ...)
cTime_toString_calendar(calendar) ==
    FormatD(calendar.year, 4) \o <<"-">> \o FormatD(calendar.month, 2)
    \o <<"-">> \o FormatD(calendar.day, 2)
    \o <<"#">> \o FormatD(calendar.hour, 2)
    \o <<":">> \o FormatD(calendar.minute, 2)
    \o <<":">> \o FormatD(calendar.second, 2)
    \o <<"#">> \o dstString[toStringDstIndex(calendar.dst) + 1]
    \o <<"#">> \o FormatPlusD(calendar.timeZone.hours, 3)
    \o <<":", "0", "0">>

\* the format of fromString, directive by directive
fromStringFormat ==
    <<"%d", "-", "%d", "-", "%d", "#", "%d", ":", "%d", ":", "%d", "#",
      "%3*s", "#", "%d", ":", "0", "0">>

\* "%3*s" is not a conversion specification of the C library (the * has to
\* come before the width), so what sscanf does with it is undefined.  A
\* library that reads flags and width in any order takes it as %*3s and
\* goes on ("suppress"); a library that reads them in order meets * where
\* the conversion character should be and ends the scan there ("stop").
ScanfOutcomes == {"suppress", "stop"}

\* %*3s: up to n characters that are not white space are read and dropped
RECURSIVE SkipWord(_, _, _)
SkipWord(s, p, n) ==
    IF n > 0 /\ p <= Len(s) /\ s[p] # " " THEN SkipWord(s, p + 1, n - 1) ELSE p

\* sscanf from position p of s with the directives format[i], format[i+1],
\* ...: the values assigned so far, in order; the scan ends at the first
\* directive that does not match
RECURSIVE sscanf(_, _, _, _, _, _)
sscanf(s, p, format, i, values, outcome) ==
    IF i > Len(format) THEN values
    ELSE IF format[i] = "%d"
    THEN IF ScanInt(s, p).ok
         THEN sscanf(s, ScanInt(s, p).next, format, i + 1,
                     Append(values, ScanInt(s, p).value), outcome)
         ELSE values
    ELSE IF format[i] = "%3*s"
    THEN IF outcome = "suppress" /\ SkipWord(s, SkipSpace(s, p), 3) > SkipSpace(s, p)
         THEN sscanf(s, SkipWord(s, SkipSpace(s, p), 3), format, i + 1, values, outcome)
         ELSE values
    ELSE IF ScanLit(s, p, format[i])
    THEN sscanf(s, p + 1, format, i + 1, values, outcome)
    ELSE values

\* the k-th variable of the argument list: assigned, or still its initial 0
Scanned(values, k) == IF k <= Len(values) THEN values[k] ELSE 0

\* conversion to int8_t
ToInt8(x) == ((x + 128) % 256) - 128

\* dst[0..2] = dateString.c_str()[20..22]
fromStringToken(dateString) == SubSeq(dateString, 21, 23)

\* if (strcmp(dst, "STD") == 0) calendar.dst = 0;
fromStringStd(dst, token) == IF token = dstString[2] THEN 0 ELSE dst

\* if (strcmp(dst, "DST") == 0) calendar.dst = 1; else calendar.dst = -1;
fromStringDst(dst, token) == IF token = dstString[3] THEN 1 ELSE -1

fromStringFields(values, dst) ==
    [stCalendar_Ini EXCEPT
        !.dst = dst,
        !.year = Scanned(values, 1),
        !.month = ToUInt8(Scanned(values, 2)),
        !.day = ToUInt8(Scanned(values, 3)),
        !.hour = ToUInt8(Scanned(values, 4)),
        !.minute = ToUInt8(Scanned(values, 5)),
        !.second = ToUInt8(Scanned(values, 6)),
        !.timeZone.hours = ToInt8(Scanned(values, 7))]

cTime_fromString(dateString, outcome) ==
    IF ScanLit(dateString, 1, "D") THEN stCalendar_Ini
    ELSE fromStringFields(
             sscanf(dateString, 1, fromStringFormat, 1, << >>, outcome),
             fromStringDst(fromStringStd(stCalendar_Ini.dst, fromStringToken(dateString)),
                           fromStringToken(dateString)))

(***************************************************************************)
(* cTime: the operators and the member functions of an instance whose      *)
(* _time is this (cTime.h).  Each gives the _time of the receiver after    *)
(* the call and what the call returns.                                     *)
(***************************************************************************)
\* a variant of operator+= that stores the sum in the receiver
cTime_operatorPlusAssign_inPlace(this, a, ovf) ==
    [this |-> cTime_set_time(SignedInt32(Plus(this, a), ovf)),
     result |-> cTime_set_time(SignedInt32(Plus(this, a), ovf))]

\* cTime operator+(const cTime& a) { return cTime::set(_time + a._time); }
cTime_operatorPlus(this, a, ovf) ==
    [this |-> this, result |-> cTime_set_time(SignedInt32(Plus(this, a), ovf))]

\* cTime operator-(const cTime& a) { return cTime::set(_time - a._time); }
cTime_operatorMinus(this, a, ovf) ==
    [this |-> this, result |-> cTime_set_time(SignedInt32(Minus(this, a), ovf))]

\* cTime operator+=(const cTime& a) { return cTime::set(_time + a._time); }
cTime_operatorPlusAssign(this, a, ovf) ==
    [this |-> this, result |-> cTime_set_time(SignedInt32(Plus(this, a), ovf))]

\* cTime operator-=(const cTime& a) { return cTime::set(_time - a._time); }
cTime_operatorMinusAssign(this, a, ovf) ==
    [this |-> this, result |-> cTime_set_time(SignedInt32(Minus(this, a), ovf))]

\* operator==, !=, <, >, <=, >=
cTime_compare(this, a) ==
    [this |-> this,
     result |-> [eq |-> this = a, ne |-> this # a, lt |-> Less(this, a),
                 gt |-> Less(a, this), le |-> ~Less(a, this), ge |-> ~Less(this, a)]]

\* stCalendar cTime::calendar(int8_t* pRequestedTimeZone = nullptr)
cTime_calendarOf(this) == [this |-> this, result |-> cTime_calendar(this, NULL)]

\* stDuration cTime::duration()
cTime_durationOf(this) == [this |-> this, result |-> cTime_duration(this)]

\* std::string cTime::toString(): toString(calendar())
cTime_toStringOf(this) ==
    [this |-> this, result |-> cTime_toString_calendar(cTime_calendar(this, NULL))]

\* std::string cTime::toDurationString(): toString(duration())
cTime_toDurationStringOf(this) ==
    [this |-> this, result |-> cTime_toString_duration(cTime_duration(this))]

(***************************************************************************)
(* setTimeZone (y2038Calendar.cpp): the wall clock of a calendar moved to  *)
(* the offset destZone.                                                    *)
(***************************************************************************)
\* const uint8_t BibCpp::DAYSOFMONTH[2][13]
DAYSOFMONTH(il, month) ==
    (IF il = 1 THEN <<0, 31, 29, 31, 30, 31, 30, 31, 31, 30, 31, 30, 31>>
               ELSE <<0, 31, 28, 31, 30, 31, 30, 31, 31, 30, 31, 30, 31>>)[month + 1]

\* int8_t diffHours = destZone - pCalendar->timeZone; if (pCalendar->dst > 0) diffHours++;
setTimeZoneDiffHours(calendar, destZone) ==
    destZone - calendar.timeZone.hours + (IF calendar.dst > 0 THEN 1 ELSE 0)

\* the branch 'if (diffHours>0)'
setTimeZoneLater(calendar, il, hour) ==
    IF hour > 23
      THEN IF calendar.day + 1 > DAYSOFMONTH(il, calendar.month)
             THEN IF calendar.month + 1 > 12
                    THEN [calendar EXCEPT !.hour = hour - 24, !.day = 1, !.month = 1,
                                          !.year = calendar.year + 1, !.dst = 0]
                    ELSE [calendar EXCEPT !.hour = hour - 24, !.day = 1,
                                          !.month = calendar.month + 1, !.dst = 0]
             ELSE [calendar EXCEPT !.hour = hour - 24, !.day = calendar.day + 1, !.dst = 0]
      ELSE [calendar EXCEPT !.hour = hour, !.dst = 0]

\* the branch 'else if (diffHours<0)'
setTimeZoneEarlier(calendar, il, hour) ==
    IF hour < 0
      THEN IF calendar.day - 1 < 0
             THEN IF calendar.month - 1 < 1
                    THEN [calendar EXCEPT !.hour = hour + 24, !.day = DAYSOFMONTH(il, 12),
                                          !.month = 12, !.year = calendar.year - 1,
                                          !.dst = 0]
                    ELSE [calendar EXCEPT !.hour = hour + 24,
                                          !.day = DAYSOFMONTH(il, calendar.month - 1),
                                          !.month = calendar.month - 1, !.dst = 0]
             ELSE [calendar EXCEPT !.hour = hour + 24, !.day = calendar.day - 1, !.dst = 0]
      ELSE [calendar EXCEPT !.hour = hour, !.dst = 0]

\* void setTimeZone(stCalendar* pCalendar, uint8_t destZone): *pCalendar
\* after the call
setTimeZone(calendar, destZone) ==
    LET il == BibCpp_isLeapYear(calendar.year)
        diffHours == setTimeZoneDiffHours(calendar, destZone)
    IN  IF diffHours > 0 THEN setTimeZoneLater(calendar, il, calendar.hour + diffHours)
        ELSE IF diffHours < 0
               THEN setTimeZoneEarlier(calendar, il, calendar.hour + diffHours)
               ELSE calendar

(***************************************************************************)
(* Inputs: zones, dates and epoch values the runs are started with.        *)
(***************************************************************************)
MaxZone == 12

Zones == -MaxZone..MaxZone

DstFlags == {-1, 0, 1}

\* the number of conversions a run chains
MaxConversions == 2

ValidDate(y, m, d) ==
    CivilFromDays(DaysFromCivil(y, m, d)) = [year |-> y, month |-> m, day |-> d]

EpochOf(y, m, d, clock) == Secs(DaysFromCivil(y, m, d), clock)

SampleYears ==
    {1902, 1961, 1962, 1970, 1972, 2000, 2001, 2004, 2005, 2023, 2030, 2038,
     2040, 2088, 2090, 2097}

SampleDays == {<<1, 1>>, <<2, 29>>, <<3, 1>>, <<9, 20>>, <<12, 31>>}

\* 00:00:00, 13:02:36 and 23:59:59 as seconds of the day
SampleClocks == {0, 46956, 86399}

SampleDates ==
    {dt \in SampleYears \X SampleDays \X SampleClocks : ValidDate(dt[1], dt[2][1], dt[2][2])}

\* February 29 of every sample year, whether that year has one or not
LeapDayDates == SampleYears \X {<<2, 29>>} \X SampleClocks

\* the first epoch value of the overflow-safe window: 2030-01-01 minus 2^31
WindowStart == Plus(BibCpp_TIME_T_2030, Int32Min)

\* 32 bit epoch values: the sample dates (those after 2038-01-19 as the
\* negative values that stand for them) and the edges of the range
EpochSamples ==
    {ToInt32(EpochOf(dt[1], dt[2][1], dt[2][2], dt[3])) : dt \in SampleDates}
    \cup {Int32Min, Int32Max, WindowStart, Minus(WindowStart, <<0, 1>>), Zero, <<-1, 86399>>}

CalendarOf(dt, z, dst) ==
    [stCalendar_Ini EXCEPT !.year = dt[1], !.month = dt[2][1], !.day = dt[2][2],
                           !.hour = dt[3] \div 3600, !.minute = (dt[3] \div 60) % 60,
                           !.second = dt[3] % 60,
                           !.timeZone.hours = z, !.dst = dst]

LastOp == IF pc = << >> THEN "" ELSE pc[Len(pc)]

WallClock(c) == <<c.year, c.month, c.day, c.hour, c.minute, c.second>>

TmWallClock(tm) ==
    <<tm.tm_year + 1900, tm.tm_mon + 1, tm.tm_mday, tm.tm_hour, tm.tm_min, tm.tm_sec>>

Hours(n) == Times(n, <<0, 3600>>)

(***************************************************************************)
(* SpecY2038: the overflow-safe converter.  A run starts from an epoch     *)
(* value or from a calendar, with an explicit zone and a dst flag, and     *)
(* converts back and forth.                                                *)
(***************************************************************************)
InitY2038Epoch ==
    /\ localZone = 1
    /\ isdst = 1
    /\ pc = << >>
    /\ \E e \in EpochSamples, z \in Zones, dst \in DstFlags :
          /\ arg = [kind |-> "epoch", e |-> e, c |-> stCalendar_Ini, z |-> z, dst |-> dst]
          /\ ret = [time |-> e, cal |-> stCalendar_Ini]

InitY2038Calendar ==
    /\ localZone = 1
    /\ isdst = 1
    /\ pc = << >>
    /\ \E dt \in SampleDates \cup LeapDayDates, z \in Zones, dst \in DstFlags :
          /\ arg = [kind |-> "calendar", e |-> Zero, c |-> CalendarOf(dt, z, dst),
                    z |-> z, dst |-> dst]
          /\ ret = [time |-> Zero, cal |-> CalendarOf(dt, z, dst)]

\* calendars that are no dates: the zero calendar stCalendar_Ini, and dates
\* with the month of stCalendar_Invalid
UINT8_INVALID == 255

SentinelCalendars ==
    {stCalendar_Ini}
    \cup {[CalendarOf(dt, 0, -1) EXCEPT !.month = UINT8_INVALID] :
            dt \in {2000, 2023} \X {<<1, 1>>} \X {0}}

InitY2038Sentinel ==
    /\ localZone = 1
    /\ isdst = 1
    /\ pc = << >>
    /\ \E c \in SentinelCalendars :
          /\ arg = [kind |-> "calendar", e |-> Zero, c |-> c,
                    z |-> c.timeZone.hours, dst |-> c.dst]
          /\ ret = [time |-> Zero, cal |-> c]

InitY2038 == InitY2038Epoch \/ InitY2038Calendar \/ InitY2038Sentinel

HoldsTime(kind) == IF pc = << >> THEN arg.kind = kind ELSE LastOp = "y2038Set"

HoldsCalendar(kind) == IF pc = << >> THEN arg.kind = kind ELSE LastOp = "y2038Calendar"

Y2038Calendar ==
    /\ Len(pc) < MaxConversions
    /\ HoldsTime("epoch")
    /\ \E ovf \in UBOutcomes :
          ret' = [ret EXCEPT !.cal = y2038Calendar(ret.time, <<arg.z>>, arg.dst, ovf)]
    /\ pc' = Append(pc, "y2038Calendar")
    /\ UNCHANGED <<localZone, isdst, arg>>

Y2038Set ==
    /\ Len(pc) < MaxConversions
    /\ HoldsCalendar("calendar")
    /\ \E ovf \in UBOutcomes, tillMonth \in MonthTableReads(ret.cal) :
          ret' = [ret EXCEPT !.time = y2038SetFrom(ret.cal, tillMonth, ovf)]
    /\ pc' = Append(pc, "y2038Set")
    /\ UNCHANGED <<localZone, isdst, arg>>

NextY2038 == Y2038Calendar \/ Y2038Set

SpecY2038 == InitY2038 /\ [][NextY2038]_vars

(***************************************************************************)
(* SpecNative: the native converter on a host in zone localZone with DST   *)
(* state isdst.  A run takes the calendar view of an instant under a zone  *)
(* request, and then either sets an instance from that view or takes the   *)
(* overflow-safe converter's view of the same instant and request.         *)
(***************************************************************************)
NativeDates ==
    {<<1970, <<1, 1>>, 0>>, <<1969, <<12, 31>>, 86399>>, <<2023, <<9, 20>>, 46956>>,
     <<2004, <<12, 31>>, 0>>, <<2004, <<12, 31>>, 86399>>, <<2000, <<2, 29>>, 46956>>,
     <<2001, <<1, 1>>, 0>>, <<2033, <<4, 8>>, 72933>>, <<1961, <<12, 13>>, 74751>>}

NativeEpochs ==
    {EpochOf(dt[1], dt[2][1], dt[2][2], dt[3]) : dt \in NativeDates} \cup {Int32Min, Int32Max}

\* nullptr, cTime::asUTC and a pointer to each relative offset (cTime::UTC: 0)
Requests == {NULL, cTime_asUTC} \cup {<<r>> : r \in Zones}

\* int8_t dst = -1: the default argument of y2038Calendar
y2038DefaultDst == -1

InitNative ==
    /\ localZone \in Zones
    /\ isdst \in DstFlags
    /\ pc = << >>
    /\ \E t \in NativeEpochs, req \in Requests :
          /\ arg = [t |-> t, req |-> req]
          /\ ret = [time |-> t, cal |-> stCalendar_Ini, cal2038 |-> stCalendar_Ini,
                    text |-> << >>]

Calendar ==
    /\ Len(pc) < MaxConversions
    /\ LastOp \in {"", "set"}
    /\ ret' = [ret EXCEPT !.cal = cTime_calendar(ret.time, arg.req)]
    /\ pc' = Append(pc, "calendar")
    /\ UNCHANGED <<localZone, isdst, arg>>

SetCalendar ==
    /\ Len(pc) < MaxConversions
    /\ LastOp = "calendar"
    /\ ret' = [ret EXCEPT !.time = cTime_set_calendar(ret.cal)]
    /\ pc' = Append(pc, "set")
    /\ UNCHANGED <<localZone, isdst, arg>>

Y2038View ==
    /\ Len(pc) < MaxConversions
    /\ pc = <<"calendar">>
    /\ \E ovf \in UBOutcomes :
          ret' = [ret EXCEPT !.cal2038 = y2038Calendar(arg.t, arg.req, y2038DefaultDst, ovf)]
    /\ pc' = Append(pc, "y2038Calendar")
    /\ UNCHANGED <<localZone, isdst, arg>>

\* printf("Calendar  is: %s\n", cTime::toString(cal).c_str());
CalendarToString ==
    /\ Len(pc) < MaxConversions
    /\ pc = <<"calendar">>
    /\ ret' = [ret EXCEPT !.text = cTime_toString_calendar(ret.cal)]
    /\ pc' = Append(pc, "toString")
    /\ UNCHANGED <<localZone, isdst, arg>>

\* y2038Set of the view the overflow-safe converter returned
Y2038SetView ==
    /\ pc = <<"calendar", "y2038Calendar">>
    /\ \E ovf \in UBOutcomes, tillMonth \in MonthTableReads(ret.cal2038) :
          ret' = [ret EXCEPT !.time = y2038SetFrom(ret.cal2038, tillMonth, ovf)]
    /\ pc' = Append(pc, "y2038Set")
    /\ UNCHANGED <<localZone, isdst, arg>>

NextNative == Calendar \/ SetCalendar \/ Y2038View \/ CalendarToString \/ Y2038SetView

SpecNative == InitNative /\ [][NextNative]_vars

(***************************************************************************)
(* SpecDuration: durations.  A run starts from an elapsed-seconds value or *)
(* from a duration record and applies duration(), toString(stDuration),    *)
(* fromDurationString() and set(stDuration) to what it holds.              *)
(***************************************************************************)
MaxDurationDays == 2

\* the conversions a duration run chains: value, record, string, record, value
MaxDurationSteps == 4

DurationSeconds ==
    {0, 1, 59, 60, 3599, 3600, 86399, 86400, 86401, 90061, 8210542, 2147483647}

DurationTimes ==
    {Secs(0, n) : n \in DurationSeconds} \cup {Neg(Secs(0, n)) : n \in DurationSeconds}

DurationInputs ==
    [days : 0..MaxDurationDays, hours : {0, 1, 23, 25}, minutes : {0, 59, 61},
     seconds : {0, 59, 3600}, sign : {1, -1}]

InitDurationTime ==
    /\ localZone = 1
    /\ isdst = 1
    /\ pc = << >>
    /\ \E t \in DurationTimes :
          /\ arg = [kind |-> "time", t |-> t, d |-> stDuration_Ini]
          /\ ret = [holds |-> "time", time |-> t, duration |-> stDuration_Ini, text |-> << >>]

InitDurationRecord ==
    /\ localZone = 1
    /\ isdst = 1
    /\ pc = << >>
    /\ \E d \in DurationInputs :
          /\ arg = [kind |-> "duration", t |-> Zero, d |-> d]
          /\ ret = [holds |-> "duration", time |-> Zero, duration |-> d, text |-> << >>]

\* durations of about 2^31 and 2^32 seconds: 2^31 - 1 = 24855 days 11647 s,
\* 2^32 = 49710 days 23296 s
LargeDurationInputs ==
    [days : {24855, 24856, 49710}, hours : {0, 1}, minutes : {0},
     seconds : {0, 11647, 23296, 23356}, sign : {1, -1}]

InitDurationLarge ==
    /\ localZone = 1
    /\ isdst = 1
    /\ pc = << >>
    /\ \E d \in LargeDurationInputs :
          /\ arg = [kind |-> "large", t |-> Zero, d |-> d]
          /\ ret = [holds |-> "duration", time |-> Zero, duration |-> d, text |-> << >>]

InitDuration == InitDurationTime \/ InitDurationRecord \/ InitDurationLarge

Duration ==
    /\ Len(pc) < MaxDurationSteps
    /\ ret.holds = "time"
    /\ ret' = [ret EXCEPT !.holds = "duration", !.duration = cTime_duration(ret.time)]
    /\ pc' = Append(pc, "duration")
    /\ UNCHANGED <<localZone, isdst, arg>>

DurationToString ==
    /\ Len(pc) < MaxDurationSteps
    /\ ret.holds = "duration"
    /\ ret' = [ret EXCEPT !.holds = "text", !.text = cTime_toString_duration(ret.duration)]
    /\ pc' = Append(pc, "toString")
    /\ UNCHANGED <<localZone, isdst, arg>>

FromDurationString ==
    /\ Len(pc) < MaxDurationSteps
    /\ ret.holds = "text"
    /\ ret' = [ret EXCEPT !.holds = "duration",
                          !.duration = cTime_fromDurationString(ret.text)]
    /\ pc' = Append(pc, "fromDurationString")
    /\ UNCHANGED <<localZone, isdst, arg>>

SetDuration ==
    /\ Len(pc) < MaxDurationSteps
    /\ ret.holds = "duration"
    /\ ret' = [ret EXCEPT !.holds = "time", !.time = cTime_set_duration(ret.duration)]
    /\ pc' = Append(pc, "set")
    /\ UNCHANGED <<localZone, isdst, arg>>

NextDuration == Duration \/ DurationToString \/ FromDurationString \/ SetDuration

SpecDuration == InitDuration /\ [][NextDuration]_vars

(***************************************************************************)
(* SpecViews: two calls of the overflow-safe converter, each with its own  *)
(* instant, zone request and dst flag, whose results are kept side by      *)
(* side.                                                                   *)
(***************************************************************************)
\* midnight and 13:02:36 on the days around three turns of the year, two
\* of them closing a leap year
ViewEpochs ==
    {EpochOf(dt[1], dt[2][1], dt[2][2], dt[3]) :
        dt \in {2000, 2001, 2004, 2005, 2023, 2024} \X {<<1, 1>>, <<12, 31>>} \X {0, 46956}}

ViewZones == {-1, 0, 1}

InitViews ==
    /\ localZone = 1
    /\ isdst = 1
    /\ pc = << >>
    /\ \E e \in ViewEpochs, z \in ViewZones, dst \in DstFlags,
          e2 \in ViewEpochs, z2 \in ViewZones, dst2 \in DstFlags :
          /\ arg = [e |-> e, z |-> z, dst |-> dst, e2 |-> e2, z2 |-> z2, dst2 |-> dst2]
          /\ ret = [cal |-> stCalendar_Ini, cal2 |-> stCalendar_Ini]

FirstView ==
    /\ pc = << >>
    /\ \E ovf \in UBOutcomes :
          ret' = [ret EXCEPT !.cal = y2038Calendar(arg.e, <<arg.z>>, arg.dst, ovf)]
    /\ pc' = Append(pc, "y2038Calendar")
    /\ UNCHANGED <<localZone, isdst, arg>>

SecondView ==
    /\ pc = <<"y2038Calendar">>
    /\ \E ovf \in UBOutcomes :
          ret' = [ret EXCEPT !.cal2 = y2038Calendar(arg.e2, <<arg.z2>>, arg.dst2, ovf)]
    /\ pc' = Append(pc, "y2038Calendar")
    /\ UNCHANGED <<localZone, isdst, arg>>

NextViews == FirstView \/ SecondView

SpecViews == InitViews /\ [][NextViews]_vars

(***************************************************************************)
(* SpecModulo: unsignedModulo on its own, applied to a signed value and a  *)
(* positive modulo.                                                        *)
(***************************************************************************)
MaxModuloValue == 130

\* small values of either sign, and whole days of either sign
ModuloValues ==
    {Secs(0, n) : n \in -MaxModuloValue..MaxModuloValue}
    \cup {Times(k, BibCpp_SECONDSPERDAY) : k \in -15..15}

\* 1, 4, 7, 60, a minute over an hour, the hour, the day and the week
ModuloModulos ==
    {<<0, 1>>, <<0, 4>>, <<0, 7>>, <<0, 60>>, <<0, 3660>>, BibCpp_SECONDSPERHOUR,
     BibCpp_SECONDSPERDAY, BibCpp_SECONDSPERWEEK}

InitModulo ==
    /\ localZone = 1
    /\ isdst = 1
    /\ pc = << >>
    /\ \E value \in ModuloValues, modulo \in ModuloModulos :
          /\ arg = [value |-> value, modulo |-> modulo]
          /\ ret = [divisor |-> 0, remainder |-> Zero]

UnsignedModulo ==
    /\ pc = << >>
    /\ ret' = unsignedModulo(arg.value, arg.modulo)
    /\ pc' = Append(pc, "unsignedModulo")
    /\ UNCHANGED <<localZone, isdst, arg>>

NextModulo == UnsignedModulo

SpecModulo == InitModulo /\ [][NextModulo]_vars

(***************************************************************************)
(* SpecInstance: a cTime instance constructed with the value arg.a, on     *)
(* which operators and member functions are called one after the other,    *)
(* with a second instance of value arg.b as the operand.  ret.this is the  *)
(* _time the receiver holds.                                               *)
(***************************************************************************)
\* the calls a run makes on the instance
MaxOperations == 2

InstanceEpochs ==
    {Zero, <<-1, 86399>>, <<1, 0>>, EpochOf(2023, 9, 20, 46956), Int32Min, Int32Max}

InitInstance ==
    /\ localZone = 1
    /\ isdst = 1
    /\ pc = << >>
    /\ \E a \in InstanceEpochs, b \in InstanceEpochs :
          /\ arg = [a |-> a, b |-> b]
          /\ ret = [this |-> cTime_set_time(a), time |-> Zero, flags |-> << >>,
                    cal |-> stCalendar_Ini, duration |-> stDuration_Ini, text |-> << >>]

OperatorPlus ==
    /\ Len(pc) < MaxOperations
    /\ \E ovf \in UBOutcomes :
          ret' = [ret EXCEPT !.this = cTime_operatorPlus(ret.this, arg.b, ovf).this,
                             !.time = cTime_operatorPlus(ret.this, arg.b, ovf).result]
    /\ pc' = Append(pc, "+")
    /\ UNCHANGED <<localZone, isdst, arg>>

OperatorMinus ==
    /\ Len(pc) < MaxOperations
    /\ \E ovf \in UBOutcomes :
          ret' = [ret EXCEPT !.this = cTime_operatorMinus(ret.this, arg.b, ovf).this,
                             !.time = cTime_operatorMinus(ret.this, arg.b, ovf).result]
    /\ pc' = Append(pc, "-")
    /\ UNCHANGED <<localZone, isdst, arg>>

OperatorPlusAssign ==
    /\ Len(pc) < MaxOperations
    /\ \E ovf \in UBOutcomes :
          ret' = [ret EXCEPT !.this = cTime_operatorPlusAssign(ret.this, arg.b, ovf).this,
                             !.time = cTime_operatorPlusAssign(ret.this, arg.b, ovf).result]
    /\ pc' = Append(pc, "+=")
    /\ UNCHANGED <<localZone, isdst, arg>>

OperatorMinusAssign ==
    /\ Len(pc) < MaxOperations
    /\ \E ovf \in UBOutcomes :
          ret' = [ret EXCEPT !.this = cTime_operatorMinusAssign(ret.this, arg.b, ovf).this,
                             !.time = cTime_operatorMinusAssign(ret.this, arg.b, ovf).result]
    /\ pc' = Append(pc, "-=")
    /\ UNCHANGED <<localZone, isdst, arg>>

OperatorCompare ==
    /\ Len(pc) < MaxOperations
    /\ ret' = [ret EXCEPT !.this = cTime_compare(ret.this, arg.b).this,
                          !.flags = cTime_compare(ret.this, arg.b).result]
    /\ pc' = Append(pc, "compare")
    /\ UNCHANGED <<localZone, isdst, arg>>

InstanceCalendar ==
    /\ Len(pc) < MaxOperations
    /\ ret' = [ret EXCEPT !.this = cTime_calendarOf(ret.this).this,
                          !.cal = cTime_calendarOf(ret.this).result]
    /\ pc' = Append(pc, "calendar")
    /\ UNCHANGED <<localZone, isdst, arg>>

InstanceDuration ==
    /\ Len(pc) < MaxOperations
    /\ ret' = [ret EXCEPT !.this = cTime_durationOf(ret.this).this,
                          !.duration = cTime_durationOf(ret.this).result]
    /\ pc' = Append(pc, "duration")
    /\ UNCHANGED <<localZone, isdst, arg>>

InstanceToString ==
    /\ Len(pc) < MaxOperations
    /\ ret' = [ret EXCEPT !.this = cTime_toStringOf(ret.this).this,
                          !.text = cTime_toStringOf(ret.this).result]
    /\ pc' = Append(pc, "toString")
    /\ UNCHANGED <<localZone, isdst, arg>>

InstanceToDurationString ==
    /\ Len(pc) < MaxOperations
    /\ ret' = [ret EXCEPT !.this = cTime_toDurationStringOf(ret.this).this,
                          !.text = cTime_toDurationStringOf(ret.this).result]
    /\ pc' = Append(pc, "toDurationString")
    /\ UNCHANGED <<localZone, isdst, arg>>

NextInstance ==
    \/ OperatorPlus \/ OperatorMinus \/ OperatorPlusAssign \/ OperatorMinusAssign
    \/ OperatorCompare \/ InstanceCalendar \/ InstanceDuration
    \/ InstanceToString \/ InstanceToDurationString

SpecInstance == InitInstance /\ [][NextInstance]_vars

(***************************************************************************)
(* SpecZone: setTimeZone called once on a valid calendar.                  *)
(***************************************************************************)
ZoneDates ==
    {dt \in {1999, 2000, 2023, 2024}
            \X {<<1, 1>>, <<1, 31>>, <<2, 28>>, <<2, 29>>, <<3, 1>>, <<9, 20>>, <<12, 31>>}
            \X {156, 3756, 43356, 79356, 82956} : ValidDate(dt[1], dt[2][1], dt[2][2])}

DestZones == 0..MaxZone

InitZone ==
    /\ localZone = 1
    /\ isdst = 1
    /\ pc = << >>
    /\ \E dt \in ZoneDates, z \in Zones, dst \in DstFlags :
          /\ arg = [c |-> CalendarOf(dt, z, dst), destZone |-> 0]
          /\ ret = [cal |-> CalendarOf(dt, z, dst)]

SetTimeZone ==
    /\ pc = << >>
    /\ \E destZone \in DestZones :
          /\ arg' = [arg EXCEPT !.destZone = destZone]
          /\ ret' = [ret EXCEPT !.cal = setTimeZone(ret.cal, destZone)]
    /\ pc' = Append(pc, "setTimeZone")
    /\ UNCHANGED <<localZone, isdst>>

NextZone == SetTimeZone

SpecZone == InitZone /\ [][NextZone]_vars

(***************************************************************************)
(* SpecCodec: the calendar string codec.  A run starts from a calendar or  *)
(* from a calendar string and applies toString(stCalendar) and fromString  *)
(* to what it holds.                                                       *)
(***************************************************************************)
\* calendars of the years 33, 1970, 2023 and 9999 at 00:00:00, 07:04:05,
\* 13:02:36 and 23:59:59, with every offset and dst flag
CodecCalendars ==
    {CalendarOf(dt, z, dst) :
        dt \in {33, 1970, 2023, 9999} \X {<<1, 1>>, <<9, 20>>, <<12, 31>>}
               \X {0, 25445, 46956, 86399},
        z \in Zones, dst \in DstFlags}

\* the three markers of the grammar and markers that are none of them
CodecTokens ==
    {dstString[1], dstString[2], dstString[3],
     <<"X", "Y", "Z">>, <<"u", "t", "c">>, <<"S", "T", "_">>}

\* the calendar string of c with the marker replaced by token
CodecText(c, token) ==
    SubSeq(cTime_toString_calendar(c), 1, 20) \o token
    \o SubSeq(cTime_toString_calendar(c), 24, 30)

InitCodec ==
    /\ localZone = 1
    /\ isdst = 1
    /\ pc = << >>
    /\ \/ \E c \in CodecCalendars :
             /\ arg = [kind |-> "calendar", c |-> c, s |-> << >>]
             /\ ret = [holds |-> "calendar", cal |-> c, text |-> << >>]
       \/ \E c \in CodecCalendars, token \in CodecTokens :
             /\ c.dst = -1
             /\ arg = [kind |-> "text", c |-> c, s |-> CodecText(c, token)]
             /\ ret = [holds |-> "text", cal |-> stCalendar_Ini,
                       text |-> CodecText(c, token)]

ToStringCalendar ==
    /\ Len(pc) < MaxConversions
    /\ ret.holds = "calendar"
    /\ ret' = [ret EXCEPT !.holds = "text", !.text = cTime_toString_calendar(ret.cal)]
    /\ pc' = Append(pc, "toString")
    /\ UNCHANGED <<localZone, isdst, arg>>

FromString ==
    /\ Len(pc) < MaxConversions
    /\ ret.holds = "text"
    /\ \E outcome \in ScanfOutcomes :
          ret' = [ret EXCEPT !.holds = "calendar",
                             !.cal = cTime_fromString(ret.text, outcome)]
    /\ pc' = Append(pc, "fromString")
    /\ UNCHANGED <<localZone, isdst, arg>>

NextCodec == ToStringCalendar \/ FromString

SpecCodec == InitCodec /\ [][NextCodec]_vars

(***************************************************************************)
(* Properties of the overflow-safe converter (SpecY2038)                   *)
(***************************************************************************)
\* C1: for every 32 bit epoch value e, every explicit zone z in -12..12 and
\* dst flag Unspecified (-1) or Standard (0), y2038Set of the calendar that
\* y2038Calendar(e, &z, dst) returned is e again.
C1_EpochRoundTrip ==
    (arg.kind = "epoch" /\ arg.dst \in {-1, 0} /\ pc = <<"y2038Calendar", "y2038Set">>)
        => ret.time = arg.e

\* C4: for every valid calendar c with year in 1970..2090, zone z and dst
\* Unspecified, y2038Calendar(y2038Set(c), &z, -1) has the year, month, day,
\* hour, minute, second, offset and dst of c.
C4_CalendarRoundTrip ==
    (/\ arg.kind = "calendar"
     /\ ValidDate(arg.c.year, arg.c.month, arg.c.day)
     /\ arg.dst = -1
     /\ arg.c.year \in 1970..2090
     /\ pc = <<"y2038Set", "y2038Calendar">>)
        => /\ WallClock(ret.cal) = WallClock(arg.c)
           /\ ret.cal.timeZone.hours = arg.c.timeZone.hours
           /\ ret.cal.dst = arg.c.dst

\* C5: with dst = DaylightTime, y2038Calendar(e, &z, 1) shows the wall clock
\* of UTC + (z + 1) hours, tagged offset z and dst 1, and y2038Set of that
\* calendar returns e.
C5_DaylightDeviation ==
    (arg.kind = "epoch" /\ arg.dst = 1)
        => /\ pc = <<"y2038Calendar">>
                => /\ WallClock(ret.cal)
                        = TmWallClock(gmtime(Plus(arg.e, Hours(arg.z + 1))))
                   /\ ret.cal.timeZone.hours = arg.z
                   /\ ret.cal.dst = 1
           /\ pc = <<"y2038Calendar", "y2038Set">> => ret.time = arg.e

\* C15: for every year Y in 1970..2090 with (Y%4 = 0 and Y%100 # 0) or
\* Y%400 = 0 and every time of day, y2038Calendar of y2038Set of the calendar
\* Y-02-29 is Y-02-29 again with the same time of day (the zone request being
\* the calendar's offset, with dst Unspecified or Standard).
C15_LeapDayRoundTrip ==
    (/\ arg.kind = "calendar"
     /\ arg.c.year \in 1970..2090
     /\ (arg.c.year % 4 = 0 /\ arg.c.year % 100 # 0) \/ arg.c.year % 400 = 0
     /\ arg.c.month = 2
     /\ arg.c.day = 29
     /\ arg.dst \in {-1, 0}
     /\ pc = <<"y2038Set", "y2038Calendar">>)
        => WallClock(ret.cal) = WallClock(arg.c)

C15_Witness ==
    /\ arg.kind = "calendar"
    /\ WallClock(arg.c) = <<2000, 2, 29, 23, 59, 59>>
    /\ arg.z = 12
    /\ arg.dst = -1
    /\ pc = <<"y2038Set", "y2038Calendar">>
    /\ WallClock(ret.cal) = <<2000, 2, 29, 23, 59, 59>>
    /\ ret.time = Minus(EpochOf(2000, 2, 29, 86399), Hours(12))

\* C16: y2038Set of a calendar dated February 29 of a year without one (such
\* as 2023-02-29) is told apart from the result of every valid date: it is
\* not the epoch value of March 1 of that year at the same time of day.
C16_NonexistentLeapDayRejected ==
    (/\ arg.kind = "calendar"
     /\ arg.c.month = 2
     /\ arg.c.day = 29
     /\ ~ValidDate(arg.c.year, 2, 29)
     /\ pc = <<"y2038Set">>)
        => \A ovf \in UBOutcomes :
              ret.time # y2038Set([arg.c EXCEPT !.month = 3, !.day = 1], ovf)

C17_WitnessPivot ==
    /\ arg.kind = "epoch"
    /\ arg.e = EpochOf(2001, 1, 1, 0)
    /\ arg.z = 0
    /\ pc = <<"y2038Calendar">>
    /\ ret.cal.dayInWeek = 1
    /\ ret.cal.calendarWeek = 1

\* the instant a calendar denotes: the seconds since 1970-01-01T00:00:00 UTC of
\* its wall clock, less its offset and the hour of daylight saving time
InstantOf(c) ==
    Minus(EpochOf(c.year, c.month, c.day, c.hour * 3600 + c.minute * 60 + c.second),
          Hours(c.timeZone.hours + (IF c.dst = 1 THEN 1 ELSE 0)))

\* less than 2^31 seconds before, or at most 2^31 - 1 seconds after, 2030-01-01
InWindow(t) == ~Less(t, WindowStart) /\ ~Less(Plus(BibCpp_TIME_T_2030, Int32Max), t)

\* C22: for every valid calendar c whose instant lies within 2^31 seconds of
\* 2030-01-01T00:00:00 UTC, y2038Set(c) is the instant of c (the seconds since
\* 1970 of the wall clock, less offset and DST hour) reduced to a signed 32 bit
\* value; 2001-01-01 00:00:00 UTC gives 978307200.
C22_SetWithWrap ==
    (/\ arg.kind = "calendar"
     /\ ValidDate(arg.c.year, arg.c.month, arg.c.day)
     /\ InWindow(InstantOf(arg.c))
     /\ pc = <<"y2038Set">>)
        => /\ ret.time = ToInt32(InstantOf(arg.c))
           /\ (WallClock(arg.c) = <<2001, 1, 1, 0, 0, 0>> /\ arg.z = 0 /\ arg.dst = -1)
                 => ret.time = Secs(0, 978307200)

\* the number of days of month m of year y, and the ordinal of y-m-d in y
DaysInMonth(y, m) ==
    IF m = 12 THEN 31 ELSE DaysFromCivil(y, m + 1, 1) - DaysFromCivil(y, m, 1)

OrdinalInYear(y, m, d) == DaysFromCivil(y, m, d) - DaysFromCivil(y, 1, 1) + 1

\* C25: for every 32 bit epoch and every explicit zone request, y2038Calendar
\* returns month in 1..12, day in 1..(length of that month in the returned
\* year), hour in 0..23, minute and second in 0..59, dayInWeek in 1..7 and
\* dayInYear in 1..366, equal to the ordinal of (month, day) in that year.
C25_WellFormedDate ==
    (arg.kind = "epoch" /\ pc = <<"y2038Calendar">>)
        => LET c == ret.cal
           IN  /\ c.month \in 1..12
               /\ c.day \in 1..DaysInMonth(c.year, c.month)
               /\ c.hour \in 0..23
               /\ c.minute \in 0..59
               /\ c.second \in 0..59
               /\ c.dayInWeek \in 1..7
               /\ c.dayInYear \in 1..366
               /\ c.dayInYear = OrdinalInYear(c.year, c.month, c.day)

C25_Witness ==
    /\ arg.kind = "epoch"
    /\ pc = <<"y2038Calendar">>
    /\ arg.e = EpochOf(2000, 2, 29, 46956)
    /\ arg.z = 0
    /\ arg.dst = -1
    /\ WallClock(ret.cal) = <<2000, 2, 29, 13, 2, 36>>
    /\ ret.cal.dayInYear = 60
    /\ ret.cal.dayInWeek = 2

\* the weekday, 1 = Monday .. 7 = Sunday, of the day with the given day count
WeekdayOfDay(day) == ((day - DaysFromCivil(2001, 1, 1)) % 7) + 1

\* the day belongs to the last week of the previous year: it precedes the first
\* Monday of a year whose January 1 is a Friday, Saturday or Sunday
BeforeFirstWeek(day) ==
    LET date == CivilFromDays(day)
        first == WeekdayOfDay(DaysFromCivil(date.year, 1, 1))
    IN  first \in {5, 6, 7} /\ OrdinalInYear(date.year, date.month, date.day) <= 8 - first

\* C26: for every in-range instant, before and after the 2001 pivot,
\* y2038Calendar returns calendarWeek in 0..53, and 0 exactly for the days
\* preceding the first Monday of a year whose January 1 falls on a Friday,
\* Saturday or Sunday.
C26_CalendarWeekRange ==
    (/\ arg.kind = "epoch"
     /\ ~Less(arg.e, WindowStart)
     /\ arg.dst \in {-1, 0}
     /\ pc = <<"y2038Calendar">>)
        => /\ ret.cal.calendarWeek \in 0..53
           /\ ret.cal.calendarWeek = 0 <=> BeforeFirstWeek(Plus(arg.e, Hours(arg.z))[1])

\* C28: for every stCalendar value passed to y2038Set, the zero calendar
\* (month 0) and the month of the invalid sentinel (255) included, the month
\* table is only read at an index in 0..11.
C28_MonthLookupSafe ==
    (arg.kind = "calendar" /\ pc = <<"y2038Set">>)
        => y2038SetMonthIndex(arg.c) \in 0..11

\* C18: whenever two results of y2038Calendar agree on year, month, day,
\* hour, minute, second, offset and dst, they also agree on the derived fields
\* dayInYear, dayInWeek and calendarWeek.
C18_DerivedFieldsFunctionOfDate ==
    (/\ pc = <<"y2038Calendar", "y2038Calendar">>
     /\ WallClock(ret.cal) = WallClock(ret.cal2)
     /\ ret.cal.timeZone.hours = ret.cal2.timeZone.hours
     /\ ret.cal.dst = ret.cal2.dst)
        => /\ ret.cal.dayInYear = ret.cal2.dayInYear
           /\ ret.cal.dayInWeek = ret.cal2.dayInWeek
           /\ ret.cal.calendarWeek = ret.cal2.calendarWeek

(***************************************************************************)
(* Properties of unsignedModulo (SpecModulo)                               *)
(***************************************************************************)
\* C23: for every signed value v (negative, zero or positive, exact negative
\* multiples of m included) and every modulo m > 0, the divisor q and the
\* remainder r that unsignedModulo returns satisfy v = q * m + r.
C23_FloorModuloEquation ==
    pc = <<"unsignedModulo">>
        => arg.value = Plus(Times(ret.divisor, arg.modulo), ret.remainder)

\* C24: for every signed value v and every modulo m > 0, the remainder that
\* unsignedModulo returns satisfies 0 <= r < m.
C24_FloorModuloRemainderRange ==
    pc = <<"unsignedModulo">>
        => ~Less(ret.remainder, Zero) /\ Less(ret.remainder, arg.modulo)

C24_Witness ==
    /\ pc = <<"unsignedModulo">>
    /\ arg.value = Secs(0, -7)
    /\ arg.modulo = <<0, 4>>
    /\ ret = [divisor |-> -2, remainder |-> <<0, 1>>]

(***************************************************************************)
(* Properties of the native converter (SpecNative)                         *)
(***************************************************************************)
AllFields(c) ==
    <<c.year, c.month, c.day, c.hour, c.minute, c.second, c.dst, c.timeZone.hours,
      c.dayInYear, c.dayInWeek, c.calendarWeek>>

\* C2: for every instant t, every host zone and DST state and every zone
\* request, cTime::set(t.calendar(request)).time() is t.
C2_NativeRoundTrip == pc = <<"calendar", "set">> => ret.time = arg.t

\* C3: for every epoch value in the 32 bit range and the same zone request,
\* cTime::calendar and y2038Calendar return the same value in every one of
\* the eleven calendar fields.
C3_CrossAgreement ==
    (InInt32(arg.t) /\ pc = <<"calendar", "y2038Calendar">>)
        => AllFields(ret.cal2038) = AllFields(ret.cal)

\* C6: t.calendar(cTime::asUTC) has the year, month, day, hour, minute and
\* second of the local view t.calendar(), its offset is L + 1 when the host
\* observes DST and L otherwise, and its dst is Unspecified (-1).
C6_AsUtcFold ==
    (arg.req = cTime_asUTC /\ pc = <<"calendar">>)
        => /\ WallClock(ret.cal) = WallClock(cTime_calendar(arg.t, NULL))
           /\ WallClock(ret.cal) = TmWallClock(localtime_s(arg.t))
           /\ ret.cal.timeZone.hours = (IF isdst = 1 THEN localZone + 1 ELSE localZone)
           /\ ret.cal.dst = -1

C6_Witness ==
    /\ arg.req = cTime_asUTC
    /\ pc = <<"calendar">>
    /\ localZone = 1
    /\ isdst = 1
    /\ arg.t = EpochOf(2023, 9, 20, 46956)
    /\ ret.cal.timeZone.hours = 2
    /\ ret.cal.dst = -1
    /\ WallClock(ret.cal) = <<2023, 9, 20, 15, 2, 36>>

\* C7: for a requested relative offset r in -12..12, t.calendar(&r) returns
\* offset r, dst Unspecified, and the wall clock of the local view shifted by
\* r - (L + DST hour) hours, which is the UTC break-down of t + r hours.
C7_ExplicitOffset ==
    (arg.req \notin {NULL, cTime_asUTC} /\ pc = <<"calendar">>)
        => /\ ret.cal.timeZone.hours = arg.req[1]
           /\ ret.cal.dst = -1
           /\ WallClock(ret.cal) = TmWallClock(gmtime(Plus(arg.t, Hours(arg.req[1]))))
           /\ WallClock(ret.cal) =
                TmWallClock(gmtime(Plus(Plus(arg.t, Hours(HostDeviation)),
                                        Hours(arg.req[1] - HostDeviation))))

C7_Witness ==
    /\ arg.req = <<-5>>
    /\ pc = <<"calendar">>
    /\ localZone = 1
    /\ isdst = 1
    /\ arg.t = EpochOf(2001, 1, 1, 0)
    /\ ret.cal.timeZone.hours = -5
    /\ ret.cal.dst = -1
    /\ WallClock(ret.cal) = <<2000, 12, 31, 19, 0, 0>>

\* C8 (as stated): t.calendar(cTime::UTC) returns offset 0 and dst Standard
\* (0), with the wall clock of t at UTC.
C8_UtcStandard ==
    (arg.req = cTime_UTC /\ pc = <<"calendar">>)
        => /\ ret.cal.timeZone.hours = 0
           /\ ret.cal.dst = 0
           /\ WallClock(ret.cal) = TmWallClock(gmtime(arg.t))

\* C8 (amended): t.calendar(cTime::UTC) returns offset 0 and dst Unspecified
\* (-1), with the wall clock of t at UTC.
C8_UtcUnspecified ==
    (arg.req = cTime_UTC /\ pc = <<"calendar">>)
        => /\ ret.cal.timeZone.hours = 0
           /\ ret.cal.dst = -1
           /\ WallClock(ret.cal) = TmWallClock(gmtime(arg.t))

C8_Witness ==
    /\ arg.req = cTime_UTC
    /\ pc = <<"calendar">>
    /\ localZone = 1
    /\ isdst = 1
    /\ arg.t = EpochOf(2023, 9, 20, 46956)
    /\ ret.cal.timeZone.hours = 0
    /\ ret.cal.dst = -1
    /\ WallClock(ret.cal) = <<2023, 9, 20, 13, 2, 36>>

\* the instant 1695214956 of the scenario, seen on a host in zone UTC+1 with
\* DST active
ScenarioStep(req) ==
    /\ arg.t = EpochOf(2023, 9, 20, 46956)
    /\ localZone = 1
    /\ isdst = 1
    /\ arg.req = req
    /\ pc = <<"calendar", "toString">>

\* C19 as stated: the instant 1695214956, viewed in a local zone of UTC+1 with
\* DST active, formats as 2023-09-20#17:17:38#DST#+01:00, and viewed in zone
\* UTC+0 as 2023-09-20#15:17:38#UTC#+00:00.
C19_ScenarioAsStated ==
    /\ ScenarioStep(NULL) => ret.text =
           <<"2", "0", "2", "3", "-", "0", "9", "-", "2", "0", "#", "1", "7",
             ":", "1", "7", ":", "3", "8", "#", "D", "S", "T", "#", "+", "0",
             "1", ":", "0", "0">>
    /\ ScenarioStep(cTime_UTC) => ret.text =
           <<"2", "0", "2", "3", "-", "0", "9", "-", "2", "0", "#", "1", "5",
             ":", "1", "7", ":", "3", "8", "#", "U", "T", "C", "#", "+", "0",
             "0", ":", "0", "0">>

\* C19, amended: the instant 1695214956, viewed in a local zone of UTC+1 with
\* DST active, formats as 2023-09-20#15:02:36#DST#+01:00, and viewed in zone
\* UTC+0 as 2023-09-20#13:02:36#UTC#+00:00.
C19_Scenario ==
    /\ ScenarioStep(NULL) => ret.text =
           <<"2", "0", "2", "3", "-", "0", "9", "-", "2", "0", "#", "1", "5",
             ":", "0", "2", ":", "3", "6", "#", "D", "S", "T", "#", "+", "0",
             "1", ":", "0", "0">>
    /\ ScenarioStep(cTime_UTC) => ret.text =
           <<"2", "0", "2", "3", "-", "0", "9", "-", "2", "0", "#", "1", "3",
             ":", "0", "2", ":", "3", "6", "#", "U", "T", "C", "#", "+", "0",
             "0", ":", "0", "0">>

C19_Witness == ScenarioStep(cTime_UTC) /\ ret.cal.hour = 13 /\ Len(ret.text) = 30

\* the local view of an instant on a host whose DST state is unknown
UnknownDstLocalView == isdst < 0 /\ arg.req = NULL /\ pc = <<"calendar">>

C27_LocalRequest ==
    (arg.req = NULL /\ ~Less(arg.t, WindowStart))
        => /\ pc = <<"calendar", "y2038Calendar">>
                => /\ ret.cal2038.timeZone.hours = localZone
                   /\ ret.cal2038.dst = isdst
                   /\ WallClock(ret.cal2038)
                        = TmWallClock(gmtime(Plus(arg.t, Hours(HostDeviation))))
           /\ pc = <<"calendar", "y2038Calendar", "y2038Set">> => ret.time = arg.t

(***************************************************************************)
(* Properties of durations (SpecDuration)                                  *)
(***************************************************************************)
\* C9: for every elapsed-seconds value t, positive or negative, formatting
\* t.duration() as a duration string, parsing the string and setting an
\* instance from the parsed duration gives t again.
C9_DurationStringRoundTrip ==
    (arg.kind = "time" /\ pc = <<"duration", "toString", "fromDurationString", "set">>)
        => ret.time = arg.t

\* sign * (days * 86400 + hours * 3600 + minutes * 60 + seconds)
SignedSeconds(d) ==
    Secs(0, d.sign * (d.days * 86400 + d.hours * 3600 + d.minutes * 60 + d.seconds))

\* C10: cTime::set(duration).time() is sign * (days*86400 + hours*3600 +
\* minutes*60 + seconds) for every duration, normalised or not, and
\* cTime::set(t.duration()).time() is t for every t.
C10_DurationRecomposition ==
    /\ (arg.kind = "duration" /\ pc = <<"set">>) => ret.time = SignedSeconds(arg.d)
    /\ (arg.kind = "time" /\ pc = <<"duration", "set">>) => ret.time = arg.t

C10_Witness ==
    /\ arg.kind = "duration"
    /\ pc = <<"set">>
    /\ arg.d = [days |-> 0, hours |-> 25, minutes |-> 0, seconds |-> 0, sign |-> -1]
    /\ ret.time = Neg(Secs(0, 90000))

\* C11: for every elapsed-seconds value t, t.duration() has sign -1 exactly
\* when t < 0 and +1 otherwise (so t = 0 gives +1), days = |t| div 86400,
\* hours = (|t| mod 86400) div 3600 in 0..23, minutes in 0..59 and seconds in
\* 0..59, the four together making up |t|.
C11_DurationDecomposition ==
    (arg.kind = "time" /\ pc = <<"duration">>)
        => LET d == ret.duration
               magnitude == IF Less(arg.t, Zero) THEN Neg(arg.t) ELSE arg.t
           IN  /\ d.sign = (IF Less(arg.t, Zero) THEN -1 ELSE 1)
               /\ d.days = magnitude[1]
               /\ d.hours = magnitude[2] \div 3600
               /\ d.hours \in 0..23
               /\ d.minutes \in 0..59
               /\ d.seconds \in 0..59
               /\ Secs(d.days, d.hours * 3600 + d.minutes * 60 + d.seconds) = magnitude

C11_Witness ==
    /\ arg.kind = "time"
    /\ pc = <<"duration">>
    /\ arg.t = Neg(Secs(0, 90061))
    /\ ret.duration = [days |-> 1, hours |-> 1, minutes |-> 1, seconds |-> 1, sign |-> -1]

\* the exact value sign * (days * 86400 + hours * 3600 + minutes * 60 + seconds)
ExactSeconds(d) == IF d.sign < 0 THEN Neg(durationValue(d)) ELSE durationValue(d)

\* C21: when sign * (days*86400 + hours*3600 + minutes*60 + seconds) does not
\* fit the epoch type, cTime::set(duration) reports an error: what it returns
\* is neither the wrapped value nor the value of any duration that fits.
C21_DurationOverflowReported ==
    (arg.kind = "large" /\ pc = <<"set">> /\ ~InInt32(ExactSeconds(arg.d)))
        => /\ ret.time # ToInt32(ExactSeconds(arg.d))
           /\ \A d \in DurationInputs : ret.time # SignedSeconds(d)

(***************************************************************************)
(* Properties of an instance (SpecInstance)                                *)
(***************************************************************************)
\* C29: after any sequence of +, -, +=, -=, comparison, calendar(),
\* duration(), toString() and toDurationString() calls the receiver's time()
\* is the value it was constructed with; a += b and a -= b return a + b and
\* a - b (where representable) and leave a unchanged.
C29_StoredEpochUnchanged ==
    /\ ret.this = arg.a
    /\ (LastOp = "+=" /\ InInt32(Plus(arg.a, arg.b))) => ret.time = Plus(arg.a, arg.b)
    /\ (LastOp = "-=" /\ InInt32(Minus(arg.a, arg.b))) => ret.time = Minus(arg.a, arg.b)

C29_Witness ==
    /\ pc = <<"+=", "-=">>
    /\ arg.a = EpochOf(2023, 9, 20, 46956)
    /\ arg.b = <<1, 0>>
    /\ ret.time = EpochOf(2023, 9, 19, 46956)
    /\ ret.this = arg.a

(***************************************************************************)
(* Properties of setTimeZone (SpecZone)                                    *)
(***************************************************************************)
\* C30: for every valid calendar (valid date, hour 0..23, offset -12..+12,
\* any dst) and every destination zone in 0..12, after setTimeZone the hour
\* is in 0..23, the month in 1..12 and the day in 1..(length of the resulting
\* month), also when the shift crosses a day, month or year boundary.
C30_SetTimeZoneWellFormed ==
    (pc = <<"setTimeZone">> /\ arg.destZone \in 0..12)
        => /\ ret.cal.hour \in 0..23
           /\ ret.cal.month \in 1..12
           /\ ret.cal.day \in 1..DaysInMonth(ret.cal.year, ret.cal.month)

(***************************************************************************)
(* Properties of the calendar string codec (SpecCodec)                     *)
(***************************************************************************)
\* C12: for every valid calendar c with a four-digit year, a whole-hour
\* offset in -12..12 and dst Unspecified, Standard or DaylightTime,
\* fromString(toString(c)) has the year, month, day, hour, minute, second,
\* dst and offset of c.
C12_CalendarStringRoundTrip ==
    (arg.kind = "calendar" /\ arg.c.year \in 1000..9999 /\ pc = <<"toString", "fromString">>)
        => /\ WallClock(ret.cal) = WallClock(arg.c)
           /\ ret.cal.dst = arg.c.dst
           /\ ret.cal.timeZone.hours = arg.c.timeZone.hours

TwoDigits(n) == <<DigitChars[(n \div 10) + 1], DigitChars[(n % 10) + 1]>>

\* YYYY-MM-DD#hh:mm:ss#TOKEN#+-hh:00, position by position
CalendarLayout(c, token) ==
    TwoDigits(c.year \div 100) \o TwoDigits(c.year % 100) \o <<"-">>
    \o TwoDigits(c.month) \o <<"-">> \o TwoDigits(c.day) \o <<"#">>
    \o TwoDigits(c.hour) \o <<":">> \o TwoDigits(c.minute) \o <<":">>
    \o TwoDigits(c.second) \o <<"#">> \o token \o <<"#">>
    \o <<IF c.timeZone.hours < 0 THEN "-" ELSE "+">>
    \o TwoDigits(IF c.timeZone.hours < 0 THEN -c.timeZone.hours ELSE c.timeZone.hours)
    \o <<":", "0", "0">>

\* C13: for every calendar c, toString(c) is exactly
\* YYYY-MM-DD#hh:mm:ss#TOKEN#+-hh:00, the numeric fields padded with zeros
\* and the offset a sign and two digits, where TOKEN is UTC when dst is
\* Unspecified (-1), STD when dst is Standard (0) and DST when dst is
\* DaylightTime (1).
C13_CalendarStringFormat ==
    (arg.kind = "calendar" /\ pc = <<"toString">>)
        => /\ Len(ret.text) = 30
           /\ arg.c.dst = -1 => ret.text = CalendarLayout(arg.c, <<"U", "T", "C">>)
           /\ arg.c.dst = 0 => ret.text = CalendarLayout(arg.c, <<"S", "T", "D">>)
           /\ arg.c.dst = 1 => ret.text = CalendarLayout(arg.c, <<"D", "S", "T">>)

C13_Witness ==
    /\ arg.kind = "calendar"
    /\ pc = <<"toString">>
    /\ arg.c = CalendarOf(<<33, <<9, 20>>, 25445>>, -5, 0)
    /\ ret.text =
         <<"0", "0", "3", "3", "-", "0", "9", "-", "2", "0", "#",
           "0", "7", ":", "0", "4", ":", "0", "5", "#", "S", "T", "D", "#",
           "-", "0", "5", ":", "0", "0">>

\* C14: fromString of a calendar string whose third field is none of UTC,
\* STD, DST returns an invalid result (the zero calendar fromString returns
\* for a string it does not take, or a calendar whose dst is the invalid
\* marker), never a calendar carrying a dst value.
C14_UnknownMarkerRejected ==
    (/\ arg.kind = "text"
     /\ fromStringToken(arg.s) \notin {dstString[1], dstString[2], dstString[3]}
     /\ pc = <<"fromString">>)
        => \/ ret.cal = stCalendar_Ini
           \/ ret.cal.dst = INT8_INVALID

=============================================================================
